---------------------------- MODULE Spec2Model ----------------------------
(***************************************************************************)
(* Upload handlers of the tubely video backend:                            *)
(*   src/src/api/videos.ts  - handlerUploadVideo (two iterations: without  *)
(*                            and with the fast-start transcode step)      *)
(*   src/unnamed/part_000   - handlerUploadThumbnail (filesystem-backed    *)
(*                            and data-URL iterations)                     *)
(* Strings are sequences of one-character strings so that split, join,     *)
(* lastIndexOf and substring are computed as the code computes them.       *)
(***************************************************************************)
EXTENDS Integers, Sequences, FiniteSets, TLC

VARIABLES db, fs, s3, req, db0, served, probed

vars == <<db, fs, s3, req, db0, served, probed>>

---------------------------------------------------------------------------
(* Bounds *)

\* number of requests served in one behaviour
MaxRequests == 2
\* largest width/height enumerated for the aspect-ratio classifier
MaxDim == 40

---------------------------------------------------------------------------
(* String literals of the source *)

Null == <<>>
Slash == <<"/">>
Dot == <<".">>
ImagePng == <<"i","m","a","g","e","/","p","n","g">>
ImageJpeg == <<"i","m","a","g","e","/","j","p","e","g">>
VideoMp4 == <<"v","i","d","e","o","/","m","p","4">>
Landscape == <<"l","a","n","d","s","c","a","p","e">>
Portrait == <<"p","o","r","t","r","a","i","t">>
Other == <<"o","t","h","e","r">>
NullText == <<"n","u","l","l">>
ProcessedSuffix == <<".","p","r","o","c","e","s","s","e","d">>
LocalhostPrefix == <<"h","t","t","p",":","/","/","l","o","c","a","l","h","o","s","t",":","8","0","9","1","/">>
HttpsPrefix == <<"h","t","t","p","s",":","/","/">>
S3Infix == <<".","s","3",".">>
AmazonawsInfix == <<".","a","m","a","z","o","n","a","w","s",".","c","o","m","/">>
DataPrefix == <<"d","a","t","a",":">>
Base64Infix == <<";","b","a","s","e","6","4",",">>

\* cfg: ApiConfig (values of the configuration object the handlers read)
assetsRoot == <<"a","s","s","e","t","s">>
s3Bucket == <<"t","u","b","e">>
s3Region == <<"e","u">>

MAX_UPLOAD_SIZE == 2 ^ 30
MAX_UPLOAD_SIZE_THUMBNAIL == 10 * (2 ^ 20)

---------------------------------------------------------------------------
(* Library functions the handlers call *)

RECURSIVE lastIndexOf(_, _)
\* String.prototype.lastIndexOf for a one-character needle, 0-based, -1 if absent
lastIndexOf(s, c) ==
  IF Len(s) = 0 THEN -1
  ELSE IF s[Len(s)] = c THEN Len(s) - 1
  ELSE lastIndexOf(SubSeq(s, 1, Len(s) - 1), c)

\* String.prototype.substring(from, to), 0-based, end exclusive
substring(s, from, to) == SubSeq(s, from + 1, to)

RECURSIVE split(_, _)
\* String.prototype.split for a one-character separator
split(s, c) ==
  IF \A i \in 1..Len(s) : s[i] # c THEN <<s>>
  ELSE LET k == CHOOSE i \in 1..Len(s) : s[i] = c /\ \A j \in 1..(i - 1) : s[j] # c
       IN <<SubSeq(s, 1, k - 1)>> \o split(SubSeq(s, k + 1, Len(s)), c)

\* path.join(a, b) for two relative segments without '.' or '..' parts
pathJoin(a, b) == a \o Slash \o b

Base64Alphabet ==
  <<"A","B","C","D","E","F","G","H","I","J","K","L","M","N","O","P",
    "Q","R","S","T","U","V","W","X","Y","Z","a","b","c","d","e","f",
    "g","h","i","j","k","l","m","n","o","p","q","r","s","t","u","v",
    "w","x","y","z","0","1","2","3","4","5","6","7","8","9","+","/">>

RECURSIVE toBase64(_)
\* Buffer.from(bytes).toString('base64')
toBase64(b) ==
  IF Len(b) = 0 THEN <<>>
  ELSE IF Len(b) = 1 THEN
    <<Base64Alphabet[(b[1] \div 4) + 1], Base64Alphabet[((b[1] % 4) * 16) + 1], "=", "=">>
  ELSE IF Len(b) = 2 THEN
    <<Base64Alphabet[(b[1] \div 4) + 1],
      Base64Alphabet[((b[1] % 4) * 16) + (b[2] \div 16) + 1],
      Base64Alphabet[((b[2] % 16) * 4) + 1], "=">>
  ELSE
    <<Base64Alphabet[(b[1] \div 4) + 1],
      Base64Alphabet[((b[1] % 4) * 16) + (b[2] \div 16) + 1],
      Base64Alphabet[((b[2] % 16) * 4) + (b[3] \div 64) + 1],
      Base64Alphabet[(b[3] % 64) + 1]>> \o toBase64(SubSeq(b, 4, Len(b)))

Digits == <<"0","1","2","3","4","5","6","7","8","9">>

\* randomBytes(32).toString('base64url') drawn by the i-th request: names
\* never repeat and hold only base64url characters (no '.', no '/')
randomName(i) == <<"r", Digits[(i % 10) + 1]>>

---------------------------------------------------------------------------
(* Aspect-ratio classification, videos.ts 223-250 *)

RECURSIVE commonFactor(_, _)
commonFactor(a, b) == IF b = 0 THEN a ELSE commonFactor(b, a % b)

\* a JavaScript number that is a non-negative rational (kept in lowest terms:
\* one value, one representation), Infinity or NaN
Num(n, d) ==
  [k |-> "num", n |-> n \div commonFactor(n, d), d |-> d \div commonFactor(n, d)]
Infinity == [k |-> "inf", n |-> 1, d |-> 0]
NaN == [k |-> "nan", n |-> 0, d |-> 0]

\* the JavaScript '/' operator on non-negative numbers
jsDiv(x, y) ==
  IF x.k = "nan" \/ y.k = "nan" THEN NaN
  ELSE IF x.k = "inf" THEN (IF y.k = "inf" THEN NaN ELSE Infinity)
  ELSE IF y.k = "inf" THEN Num(0, 1)
  ELSE IF y.n = 0 THEN (IF x.n = 0 THEN NaN ELSE Infinity)
  ELSE Num(x.n * y.d, x.d * y.n)

ToleranceNum == 1
ToleranceDen == 100

\* Math.abs(x - p/q) < tolerance
withinTolerance(x, p, q) ==
  /\ x.k = "num"
  /\ LET diff == (x.n * q) - (p * x.d)
         absDiff == IF diff < 0 THEN 0 - diff ELSE diff
     IN absDiff * ToleranceDen < ToleranceNum * (x.d * q)

RECURSIVE gcd(_, _)
gcd(a, b) == IF b = 0 THEN a ELSE gcd(b, a % b)

\* classify with the ratio taken as height over width
classifyInverted(width, height) ==
  LET divisor == gcd(width, height)
      simplifiedWidth == jsDiv(Num(width, 1), Num(divisor, 1))
      simplifiedHeight == jsDiv(Num(height, 1), Num(divisor, 1))
      aspectRatio == jsDiv(simplifiedHeight, simplifiedWidth)
  IN IF withinTolerance(aspectRatio, 16, 9) THEN Landscape
     ELSE IF withinTolerance(aspectRatio, 9, 16) THEN Portrait
     ELSE Other

\* the try block of getVideoAspectRatio for parsed width and height
classify(width, height) ==
  LET divisor == gcd(width, height)
      simplifiedWidth == jsDiv(Num(width, 1), Num(divisor, 1))
      simplifiedHeight == jsDiv(Num(height, 1), Num(divisor, 1))
      aspectRatio == jsDiv(simplifiedWidth, simplifiedHeight)
  IN IF withinTolerance(aspectRatio, 16, 9) THEN Landscape
     ELSE IF withinTolerance(aspectRatio, 9, 16) THEN Portrait
     ELSE Other

\* appendProcessedSuffix, videos.ts 294-305
appendProcessedSuffix(filePath) ==
  LET lastDotIndex == lastIndexOf(filePath, ".")
  IN IF lastDotIndex = -1 THEN filePath \o ProcessedSuffix
     ELSE LET base == substring(filePath, 0, lastDotIndex)
              extension == substring(filePath, lastDotIndex, Len(filePath))
          IN base \o ProcessedSuffix \o extension

\* processVideoForFastStart returning the output path whatever ffmpeg's exit code
processVideoForFastStartIgnoringExit(inputFilePath, exitCode) ==
  appendProcessedSuffix(inputFilePath)

\* processVideoForFastStart's return value for an ffmpeg exit code
processVideoForFastStart(inputFilePath, exitCode) ==
  IF exitCode # 0 THEN inputFilePath ELSE appendProcessedSuffix(inputFilePath)

---------------------------------------------------------------------------
(* State *)

Users == {"u1", "u2"}
\* validateJWT throws for a missing or invalid token: no user identifier
NoUser == ""
V1 == <<"v","1">>
V2 == <<"v","2">>
V3 == <<"v","3">>
\* path parameters a request can carry: missing, a stored record, no record
\* (the record V2 is never named in a path and stands for every other record)
VideoIds == {Null, V1, V3}
Handlers == {"thumbFs", "thumbData", "videoV1", "videoV2"}
VideoHandlers == {"videoV1", "videoV2"}
ContentTypes == {ImagePng, ImageJpeg, VideoMp4}
\* bytes of the uploaded file part
FileBytes == <<104, 105>>
\* width/height pairs ffprobe reports in the handler model
ProbeDims == {<<1920, 1080>>, <<1080, 1920>>, <<1000, 1000>>, <<0, 0>>}
\* width and height values enumerated for the classifier on its own
Dims == (0..MaxDim) \cup {1000, 1080, 1920}

limitOf(handler) ==
  IF handler \in VideoHandlers THEN MAX_UPLOAD_SIZE ELSE MAX_UPLOAD_SIZE_THUMBNAIL

NoFile == [present |-> FALSE, size |-> 0, type |-> Null]

filesFor(handler) ==
  {NoFile} \cup [present : {TRUE},
                 size : {limitOf(handler), limitOf(handler) + 1},
                 type : ContentTypes]

Video(id, userID) ==
  [id |-> id, userID |-> userID, thumbnailURL |-> Null, videoURL |-> Null]

NoVideo == Video(Null, NoUser)

NoReq ==
  [handler |-> "videoV2", videoId |-> Null, userID |-> NoUser, file |-> NoFile,
   pc |-> "idle", outcome |-> "", threwAt |-> "",
   video |-> NoVideo, videoFileName |-> Null, videoPath |-> Null,
   processedFilePath |-> Null, aspectRatio |-> Null, key |-> Null,
   dataUrl |-> Null,
   created |-> {}, tools |-> {}, putSrc |-> Null, putKey |-> Null,
   updated |-> FALSE, transcodeExit |-> -1, probeExit |-> -1,
   probeParsed |-> FALSE]

NoProbe == [width |-> 0, height |-> 0, result |-> Null]

Init ==
  /\ db = (V1 :> Video(V1, "u1")) @@ (V2 :> Video(V2, "u2"))
  /\ fs = <<>>
  /\ s3 = <<>>
  /\ req = NoReq
  /\ db0 = db
  /\ served = 0
  /\ probed = NoProbe

\* a throw that leaves the handler
throw(r, error, at) == [r EXCEPT !.pc = "done", !.outcome = error, !.threwAt = at]

\* Bun.write(path, bytes) / ffmpeg writing its output
writeFile(files, path, content) ==
  [p \in (DOMAIN files) \cup {path} |-> IF p = path THEN content ELSE files[p]]

\* Bun.file(path).delete() on an existing file
deleteFile(files, path) == [p \in (DOMAIN files) \ {path} |-> files[p]]

\* updateVideo(cfg.db, video): the stored record is replaced by the argument
updateVideo(store, video) == [store EXCEPT ![video.id] = video]

---------------------------------------------------------------------------
(* A request arrives at one of the handlers *)

Receive(handler, videoId, userID, file) ==
  /\ req.pc \in {"idle", "done"}
  /\ served < MaxRequests
  /\ req' = [NoReq EXCEPT !.handler = handler, !.videoId = videoId,
                          !.userID = userID, !.file = file, !.pc = "validate"]
  /\ db0' = db
  /\ served' = served + 1
  /\ UNCHANGED <<db, fs, s3, probed>>

---------------------------------------------------------------------------
(* handlerUploadVideo *)

\* videos.ts 14-45 / 140-171: the first check that throws, or "ok"
videoChecks(r, store) ==
  IF r.videoId = Null THEN "BadRequestError"
  ELSE IF r.userID = NoUser THEN "UserNotAuthenticatedError"
  ELSE IF r.videoId \notin DOMAIN store THEN "NotFoundError"
  ELSE IF r.userID # store[r.videoId].userID THEN "UserForbiddenError"
  ELSE IF ~r.file.present THEN "BadRequestError"
  ELSE IF r.file.size > MAX_UPLOAD_SIZE THEN "BadRequestError"
  ELSE IF r.file.type # VideoMp4 THEN "BadRequestError"
  ELSE "ok"

VideoValidate ==
  /\ req.handler \in VideoHandlers
  /\ req.pc = "validate"
  /\ LET result == videoChecks(req, db)
     IN req' = IF result = "ok"
               THEN [req EXCEPT !.pc = "stage", !.video = db[req.videoId]]
               ELSE throw(req, result, "validate")
  /\ UNCHANGED <<db, fs, s3, db0, served, probed>>

\* videos.ts 47-51 / 173-178
VideoStage ==
  /\ req.handler \in VideoHandlers
  /\ req.pc = "stage"
  /\ LET videoFileName == randomName(served) \o Dot \o split(req.file.type, "/")[2]
         videoPath == pathJoin(assetsRoot, videoFileName)
     IN /\ fs' = writeFile(fs, videoPath, [bytes |-> FileBytes, layout |-> "raw"])
        /\ req' = [req EXCEPT !.videoFileName = videoFileName,
                              !.videoPath = videoPath,
                              !.created = @ \cup {videoPath},
                              !.pc = IF req.handler = "videoV2"
                                     THEN "transcode" ELSE "probe"]
  /\ UNCHANGED <<db, s3, db0, served, probed>>

\* videos.ts 180, 252-279: ffmpeg runs; a failing run may leave a partial output
VideoTranscode ==
  /\ req.handler = "videoV2"
  /\ req.pc = "transcode"
  /\ \E exitCode \in {0, 1}, leftover \in BOOLEAN :
       LET outputFilePath == appendProcessedSuffix(req.videoPath)
           produced == exitCode = 0 \/ leftover
       IN /\ exitCode = 0 => ~leftover
          /\ fs' = IF produced
                   THEN writeFile(fs, outputFilePath,
                                  [bytes |-> FileBytes,
                                   layout |-> IF exitCode = 0 THEN "faststart"
                                              ELSE "partial"])
                   ELSE fs
          /\ req' = [req EXCEPT
                       !.processedFilePath =
                          processVideoForFastStart(req.videoPath, exitCode),
                       !.transcodeExit = exitCode,
                       !.tools = @ \cup {"ffmpeg"},
                       !.created = IF produced THEN @ \cup {outputFilePath} ELSE @,
                       !.pc = "probe"]
  /\ UNCHANGED <<db, s3, db0, served, probed>>

\* getVideoAspectRatio, videos.ts 67-108 / 198-250
getVideoAspectRatio(handler, exitCode, parsed, width, height) ==
  IF exitCode # 0 THEN [threw |-> TRUE, value |-> Null]
  ELSE IF parsed THEN [threw |-> FALSE, value |-> classify(width, height)]
  ELSE [threw |-> FALSE, value |-> IF handler = "videoV1" THEN Null ELSE Other]

\* videos.ts 55 (string concatenation, null prints as "null") / 183 (path.join)
storageKey(handler, aspectRatio, videoFileName) ==
  IF handler = "videoV1"
  THEN (IF aspectRatio = Null THEN NullText ELSE aspectRatio) \o Slash \o videoFileName
  ELSE pathJoin(aspectRatio, videoFileName)

\* videos.ts 54-55 / 181-183
VideoProbe ==
  /\ req.handler \in VideoHandlers
  /\ req.pc = "probe"
  /\ \E exitCode \in {0, 1}, parsed \in BOOLEAN, dims \in ProbeDims :
       LET ratio == getVideoAspectRatio(req.handler, exitCode, parsed, dims[1], dims[2])
           probedReq == [req EXCEPT !.probeExit = exitCode,
                                    !.probeParsed = exitCode = 0 /\ parsed,
                                    !.tools = @ \cup {"ffprobe"}]
       IN req' = IF ratio.threw
                 THEN throw(probedReq, "Error", "probe")
                 ELSE [probedReq EXCEPT
                         !.aspectRatio = ratio.value,
                         !.key = storageKey(req.handler, ratio.value, req.videoFileName),
                         !.pc = "put"]
  /\ UNCHANGED <<db, fs, s3, db0, served, probed>>

\* videos.ts 52, 57 / 182, 185-187
VideoPut ==
  /\ req.handler \in VideoHandlers
  /\ req.pc = "put"
  /\ \E ok \in BOOLEAN :
       LET source == IF req.handler = "videoV1" THEN req.videoPath
                     ELSE req.processedFilePath
       IN IF ok /\ source \in DOMAIN fs
          THEN /\ s3' = writeFile(s3, req.key, [body |-> fs[source], type |-> VideoMp4])
               /\ req' = [req EXCEPT !.putSrc = source, !.putKey = req.key,
                                     !.pc = "update"]
          ELSE /\ s3' = s3
               /\ req' = throw(req, "Error", "put")
  /\ UNCHANGED <<db, fs, db0, served, probed>>

videoURL(key) == HttpsPrefix \o s3Bucket \o S3Infix \o s3Region \o AmazonawsInfix \o key

\* videos.ts 58-59 / 188-189
VideoUpdate ==
  /\ req.handler \in VideoHandlers
  /\ req.pc = "update"
  /\ \E ok \in BOOLEAN :
       LET video == [req.video EXCEPT !.videoURL = videoURL(req.key)]
       IN IF ok
          THEN /\ db' = updateVideo(db, video)
               /\ req' = [req EXCEPT !.video = video, !.updated = TRUE, !.pc = "delete"]
          ELSE /\ db' = db
               /\ req' = throw([req EXCEPT !.video = video], "Error", "update")
  /\ UNCHANGED <<fs, s3, db0, served, probed>>

\* videos.ts 62-64 / 192
VideoDelete ==
  /\ req.handler \in VideoHandlers
  /\ req.pc = "delete"
  /\ IF req.videoPath \in DOMAIN fs
     THEN /\ fs' = deleteFile(fs, req.videoPath)
          /\ req' = IF req.handler = "videoV1"
                    THEN [req EXCEPT !.pc = "done", !.outcome = "200"]
                    ELSE [req EXCEPT !.pc = "deleteProcessed"]
     ELSE /\ fs' = fs
          /\ req' = throw(req, "Error", "delete")
  /\ UNCHANGED <<db, s3, db0, served, probed>>

\* videos.ts 193-195
VideoDeleteProcessed ==
  /\ req.handler = "videoV2"
  /\ req.pc = "deleteProcessed"
  /\ IF req.processedFilePath \in DOMAIN fs
     THEN /\ fs' = deleteFile(fs, req.processedFilePath)
          /\ req' = [req EXCEPT !.pc = "done", !.outcome = "200"]
     ELSE /\ fs' = fs
          /\ req' = throw(req, "Error", "deleteProcessed")
  /\ UNCHANGED <<db, s3, db0, served, probed>>

---------------------------------------------------------------------------
(* handlerUploadThumbnail *)

\* part_000 12-32 (filesystem iteration) / 63-80 (data-URL iteration)
thumbnailChecks(r) ==
  IF r.videoId = Null THEN "BadRequestError"
  ELSE IF r.userID = NoUser THEN "UserNotAuthenticatedError"
  ELSE IF ~r.file.present THEN "BadRequestError"
  ELSE IF r.file.size > MAX_UPLOAD_SIZE_THUMBNAIL THEN "BadRequestError"
  ELSE IF r.handler = "thumbFs" /\ r.file.type # ImageJpeg /\ r.file.type # ImagePng
    THEN "BadRequestError"
  ELSE "ok"

\* part_000 81-83
dataUrlOf(file) == DataPrefix \o file.type \o Base64Infix \o toBase64(FileBytes)

ThumbValidate ==
  /\ req.handler \notin VideoHandlers
  /\ req.pc = "validate"
  /\ LET result == thumbnailChecks(req)
     IN req' = IF result # "ok" THEN throw(req, result, "validate")
               ELSE IF req.handler = "thumbFs" THEN [req EXCEPT !.pc = "write"]
               ELSE [req EXCEPT !.dataUrl = dataUrlOf(req.file), !.pc = "lookup"]
  /\ UNCHANGED <<db, fs, s3, db0, served, probed>>

\* part_000 34-35
imgPathOf(videoId, file) == pathJoin(assetsRoot, videoId) \o Dot \o split(file.type, "/")[2]

\* part_000 33-36
ThumbWrite ==
  /\ req.handler = "thumbFs"
  /\ req.pc = "write"
  /\ LET imgPath == imgPathOf(req.videoId, req.file)
     IN /\ fs' = writeFile(fs, imgPath, [bytes |-> FileBytes, layout |-> "raw"])
        /\ req' = [req EXCEPT !.created = @ \cup {imgPath}, !.pc = "lookup"]
  /\ UNCHANGED <<db, s3, db0, served, probed>>

\* thumbnailLookup without the ownership comparison
thumbnailLookupNoOwnerCheck(r, store) ==
  IF r.videoId \notin DOMAIN store THEN "NotFoundError" ELSE "ok"

\* part_000 38-45 / 85-92
thumbnailLookup(r, store) ==
  IF r.videoId \notin DOMAIN store THEN "NotFoundError"
  ELSE IF r.userID # store[r.videoId].userID THEN "UserForbiddenError"
  ELSE "ok"

ThumbLookup ==
  /\ req.handler \notin VideoHandlers
  /\ req.pc = "lookup"
  /\ LET result == thumbnailLookup(req, db)
     IN req' = IF result = "ok"
               THEN [req EXCEPT !.video = db[req.videoId], !.pc = "update"]
               ELSE throw(req, result, "lookup")
  /\ UNCHANGED <<db, fs, s3, db0, served, probed>>

\* part_000 47 / 94
thumbnailURLOf(r) ==
  IF r.handler = "thumbFs" THEN LocalhostPrefix \o imgPathOf(r.videoId, r.file)
  ELSE r.dataUrl

\* part_000 47-50 / 94-97
ThumbUpdate ==
  /\ req.handler \notin VideoHandlers
  /\ req.pc = "update"
  /\ \E ok \in BOOLEAN :
       LET video == [req.video EXCEPT !.thumbnailURL = thumbnailURLOf(req)]
       IN IF ok
          THEN /\ db' = updateVideo(db, video)
               /\ req' = [req EXCEPT !.video = video, !.updated = TRUE,
                                     !.pc = "done", !.outcome = "200"]
          ELSE /\ db' = db
               /\ req' = throw([req EXCEPT !.video = video], "Error", "update")
  /\ UNCHANGED <<fs, s3, db0, served, probed>>

---------------------------------------------------------------------------
(* Specification of the handlers *)

Arrive ==
  \E handler \in Handlers, videoId \in VideoIds, userID \in Users \cup {NoUser} :
    \E file \in filesFor(handler) : Receive(handler, videoId, userID, file)

Next ==
  \/ Arrive
  \/ VideoValidate
  \/ VideoStage
  \/ VideoTranscode
  \/ VideoProbe
  \/ VideoPut
  \/ VideoUpdate
  \/ VideoDelete
  \/ VideoDeleteProcessed
  \/ ThumbValidate
  \/ ThumbWrite
  \/ ThumbLookup
  \/ ThumbUpdate

Spec == Init /\ [][Next]_vars

---------------------------------------------------------------------------
(* Specification of the classifier alone: ffprobe reports any width and    *)
(* height of Dims and the try block of getVideoAspectRatio classifies them *)

InitClassify ==
  /\ db = (V1 :> Video(V1, "u1")) @@ (V2 :> Video(V2, "u2"))
  /\ fs = <<>>
  /\ s3 = <<>>
  /\ req = NoReq
  /\ db0 = db
  /\ served = 0
  /\ probed \in [width : Dims, height : Dims, result : {Null}]

Classify ==
  /\ probed.result = Null
  /\ probed' = [probed EXCEPT !.result = classify(probed.width, probed.height)]
  /\ UNCHANGED <<db, fs, s3, req, db0, served>>

NextClassify == Classify

SpecClassify == InitClassify /\ [][NextClassify]_vars

---------------------------------------------------------------------------
(* Properties *)

Done == req.pc = "done"

ClientFailures == {"BadRequestError", "NotFoundError", "UserForbiddenError"}

Mp4Extension == <<".","m","p","4">>

\* the upload part alone satisfies the handler's presence, size and type rules
ValidUpload ==
  /\ req.file.present
  /\ req.file.size <= limitOf(req.handler)
  /\ req.handler \in VideoHandlers => req.file.type = VideoMp4
  /\ req.handler = "thumbFs" => req.file.type \in {ImageJpeg, ImagePng}

\* the staged path of the request with '.processed' before its extension
ProcessedPath ==
  assetsRoot \o Slash \o randomName(served) \o ProcessedSuffix \o Mp4Extension

\* C1: when the video upload handler has returned (200 or a thrown failure),
\* no file this invocation created under the assets root still exists.
C1_TempFilesDeletedOnEveryExit ==
  (Done /\ req.handler \in VideoHandlers) =>
    \A path \in req.created : path \notin DOMAIN fs

\* C2: a request of either handler that ended in an invalid-request, not-found
\* or forbidden failure wrote no file, ran no tool, put no object and updated
\* no record.
C2_NoSideEffectBeforeClientFailure ==
  (Done /\ req.outcome \in ClientFailures) =>
    /\ req.created = {}
    /\ req.tools = {}
    /\ req.putKey = Null
    /\ ~req.updated
    /\ db = db0

\* C3: an authenticated request of either handler naming a video identifier
\* without a record ends in a not-found failure, whatever the file part is.
C3_NotFoundWhateverTheUpload ==
  (Done /\ req.userID \in Users /\ req.videoId # Null /\ req.videoId \notin DOMAIN db0) =>
    req.outcome = "NotFoundError"

NonOwnerValidRequest ==
  /\ req.pc # "idle"
  /\ req.userID \in Users
  /\ req.videoId \in DOMAIN db0
  /\ req.userID # db0[req.videoId].userID
  /\ ValidUpload

\* C4: in either handler, an authenticated user who is not the owner of the
\* existing record and sends an otherwise valid upload gets a forbidden
\* failure, and the record's URL fields stay as they were when the request
\* arrived.
C4_NonOwnerForbiddenUrlsKept ==
  NonOwnerValidRequest =>
    /\ Done => req.outcome = "UserForbiddenError"
    /\ db[req.videoId].thumbnailURL = db0[req.videoId].thumbnailURL
    /\ db[req.videoId].videoURL = db0[req.videoId].videoURL

C4_Witness ==
  /\ NonOwnerValidRequest
  /\ Done
  /\ req.outcome = "UserForbiddenError"
  /\ db[req.videoId].videoURL # Null

ProbeFailed ==
  /\ req.handler \in VideoHandlers
  /\ req.probeExit # -1
  /\ ~req.probeParsed

\* C5: when ffprobe exits non-zero or its output cannot be parsed, the
\* handler does not abort at the probe, the classification is "other", the
\* storage key is other/<generated name>.mp4, and unless the storage put or
\* the record update fails the request ends with status 200.
C5_ProbeFailureFallsBackToOther ==
  ProbeFailed =>
    /\ req.threwAt # "probe"
    /\ req.aspectRatio = Other
    /\ req.key = Other \o Slash \o req.videoFileName
    /\ (Done /\ req.threwAt \notin {"put", "update"}) => req.outcome = "200"

\* C6: once the handler has put an object, the file it read is the processed
\* path exactly when ffmpeg exited 0, is the staged file when ffmpeg exited
\* non-zero, and is never any other file; the stored body has the fast-start
\* layout exactly when ffmpeg exited 0.
C6_UploadSourceFollowsTranscodeExit ==
  req.putSrc # Null =>
    /\ req.putSrc = ProcessedPath <=> req.transcodeExit = 0
    /\ req.transcodeExit > 0 => req.putSrc = req.videoPath
    /\ req.putSrc \in {req.videoPath, ProcessedPath}
    /\ req.videoPath = assetsRoot \o Slash \o randomName(served) \o Mp4Extension
    /\ s3[req.putKey].body.layout = "faststart" <=> req.transcodeExit = 0

C6_Witness ==
  /\ req.putSrc # Null
  /\ req.transcodeExit = 1
  /\ req.putSrc = req.videoPath
  /\ ProcessedPath \in DOMAIN fs

\* C7: a valid owned upload whose ffmpeg run exits non-zero, with the probe,
\* the storage put and the record update succeeding, ends with status 200 and
\* with its temporary files deleted.
C7_TranscodeFailureStillEnds200 ==
  (/\ Done
   /\ req.handler = "videoV2"
   /\ req.transcodeExit > 0
   /\ req.probeParsed
   /\ req.putSrc # Null
   /\ req.updated) =>
    /\ req.outcome = "200"
    /\ req.videoPath \notin DOMAIN fs

\* C8: a request never changes a record's identifier or owner nor any record
\* other than the one named in the path; the thumbnail handler changes at most
\* that record's thumbnail URL, the video handler at most its video URL, and
\* a record differs from its value at arrival only if the request ends 200.
C8_OnlyUrlOfNamedRecordOn200 ==
  /\ DOMAIN db = DOMAIN db0
  /\ \A id \in DOMAIN db :
       /\ db[id].id = db0[id].id
       /\ db[id].userID = db0[id].userID
       /\ id # req.videoId => db[id] = db0[id]
       /\ req.handler \in VideoHandlers => db[id].thumbnailURL = db0[id].thumbnailURL
       /\ req.handler \notin VideoHandlers => db[id].videoURL = db0[id].videoURL
       /\ db[id] # db0[id] => (req.pc # "done" \/ req.outcome = "200")
       /\ (Done /\ req.outcome # "200") => db[id] = db0[id]

CommonDivisors(w, h) ==
  {k \in 1..(IF w > h THEN w ELSE h) : w % k = 0 /\ h % k = 0}

\* the greatest common divisor by its definition (0 for the pair 0, 0)
GreatestCommonDivisor(w, h) ==
  IF w = 0 /\ h = 0 THEN 0
  ELSE LET common == CommonDivisors(w, h)
       IN CHOOSE k \in common : \A j \in common : j <= k

\* |(w/d)/(h/d) - p/q| < 0.01 over the rationals; false when the quotient is
\* not a number
RatioWithin(w, h, d, p, q) ==
  /\ d > 0
  /\ h \div d > 0
  /\ LET diff == ((w \div d) * q) - (p * (h \div d))
     IN 100 * (IF diff < 0 THEN 0 - diff ELSE diff) < (h \div d) * q

ExpectedClass(w, h) ==
  LET d == GreatestCommonDivisor(w, h)
  IN IF RatioWithin(w, h, d, 16, 9) THEN Landscape
     ELSE IF RatioWithin(w, h, d, 9, 16) THEN Portrait
     ELSE Other

\* C9: for every probed width and height (h = 0 and w = h = 0 included) the
\* Euclidean recursion yields the greatest common divisor d and the classifier
\* returns landscape iff |(w/d)/(h/d) - 16/9| < 0.01, else portrait iff
\* |(w/d)/(h/d) - 9/16| < 0.01, else other; 1920x1080 is landscape, 1080x1920
\* portrait, 1000x1000 other.
C9_ClassifierFollowsRatioRule ==
  probed.result # Null =>
    /\ gcd(probed.width, probed.height) = GreatestCommonDivisor(probed.width, probed.height)
    /\ probed.result = ExpectedClass(probed.width, probed.height)
    /\ (probed.width = 1920 /\ probed.height = 1080) => probed.result = Landscape
    /\ (probed.width = 1080 /\ probed.height = 1920) => probed.result = Portrait
    /\ (probed.width = 1000 /\ probed.height = 1000) => probed.result = Other
    /\ probed.height = 0 => probed.result = Other

C9_Witness ==
  /\ probed.width = 1920
  /\ probed.height = 1080
  /\ probed.result = Landscape

StorageKeys ==
  {cls \o Slash \o randomName(k) \o Mp4Extension :
     cls \in {Landscape, Portrait, Other}, k \in 1..MaxRequests}

\* C10: the video handler updates the record only after its put completed,
\* and every video URL stored in a record is the bucket/region URL of a key
\* <classification>/<generated name>.mp4, classification one of landscape,
\* portrait, other, under which an object is stored.
C10_VideoUrlNamesStoredObject ==
  /\ (req.handler \in VideoHandlers /\ req.updated) => req.putKey = req.key
  /\ \A id \in DOMAIN db :
       db[id].videoURL # Null =>
         \E key \in (DOMAIN s3) \cap StorageKeys :
           db[id].videoURL =
             HttpsPrefix \o s3Bucket \o S3Infix \o s3Region \o AmazonawsInfix \o key

=============================================================================
